---- MODULE Spec2Model ----
(***************************************************************************)
(* A model of luigi/scalding.py: ScaldingJobRunner (the build cache, the   *)
(* compile and archive subprocesses, the assembly of the hadoop command,   *)
(* the submission and the commit of the outputs) and ScaldingJobTask.      *)
(*                                                                         *)
(* A Python string is a sequence of tokens: "a/WordCount.scala" is         *)
(* <<"a/", "WordCount", ".scala">>, '' is <<>>, and str + str is \o.       *)
(* Python's None is the reserved one-token sequence None.  An operation    *)
(* that may raise returns Ok(v) or Raise(e).                               *)
(***************************************************************************)
EXTENDS Integers, Sequences, FiniteSets, TLC

VARIABLES
    now,      \* the filesystem clock: the mtime a write stamps
    conf,     \* the [scalding] section of client.cfg, read at import
    src,      \* the scala source files on the local disk
    jar,      \* the job jars under tmp_dir
    build,    \* the build directories under tmp_dir
    hdfs,     \* the paths that exist on the cluster's filesystem
    proc,     \* per process: the position in run_job and its locals
    dsrc,     \* get_job_class alone: the source it is applied to
    dres      \* get_job_class alone: what it returned or raised

vars == <<now, conf, src, jar, build, hdfs, proc, dsrc, dres>>

----------------------------------------------------------------------------
(* Bounds *)

MaxClock == 2

MaxLines == 3

Procs == {1, 2}

----------------------------------------------------------------------------
(* Python values *)

None == <<"<None>">>

Str(t) == <<t>>

Ok(v) == [ok |-> TRUE, v |-> v, err |-> ""]

Raise(e) == [ok |-> FALSE, v |-> <<>>, err |-> e]

\* bool(x) of a string or None: what filter(None, ...) and `not x` test
Truthy(x) == x # None /\ x # <<>>

\* filter(None, xs)
FilterNone(xs) == SelectSeq(xs, Truthy)

RECURSIVE Join(_, _)
\* sep.join(xs)
Join(sep, xs) ==
    IF xs = <<>> THEN <<>>
    ELSE IF Len(xs) = 1 THEN xs[1]
    ELSE xs[1] \o <<sep>> \o Join(sep, Tail(xs))

\* os.path.join(a, b) of a directory and a relative name
PathJoin(a, b) == a \o <<"/">> \o b

DirTokens == {"a/", "b/"}

ExtTokens == {".scala", ".jar"}

\* os.path.splitext(p)[0]
SplitextRoot(p) ==
    IF p # <<>> /\ p[Len(p)] \in ExtTokens THEN SubSeq(p, 1, Len(p) - 1) ELSE p

\* os.path.basename(p)
Basename(p) == SelectSeq(p, LAMBDA t : t \notin DirTokens)

----------------------------------------------------------------------------
(* The configuration and the library directories on disk *)

ScalaHome == <<"/usr/share/scala">>

ScaldingHome == <<"/usr/share/scalding">>

ScaldingHomeNoCore == <<"/opt/scalding-nocore">>

ProvidedDir == <<"/usr/share/scalding/provided">>

LibjarsDir == <<"/usr/share/scalding/libjars">>

AbsentDir == <<"/nonexistent">>

tmp_dir == <<"/tmp/luigi">>

User == <<"user">>

\* os.listdir(d): the names in d in enumeration order, or OSError
listdir(d) ==
    IF d = None THEN Raise("TypeError")
    ELSE IF d = PathJoin(ScaldingHome, <<"lib">>)
        THEN Ok(<< <<"README">>, <<"cascading", ".jar">>,
                   <<"scalding-core-", "0.8", ".jar">> >>)
    ELSE IF d = PathJoin(ScaldingHomeNoCore, <<"lib">>)
        THEN Ok(<< <<"cascading", ".jar">> >>)
    ELSE IF d = ProvidedDir THEN Ok(<< <<"hadoop-core", ".jar">>, <<"NOTICE">> >>)
    ELSE IF d = LibjarsDir THEN Ok(<< <<"extra", ".jar">> >>)
    ELSE IF d = PathJoin(ScalaHome, <<"lib">>)
        THEN Ok(<< <<"scala-compiler", ".jar">>, <<"scala-library", ".jar">>,
                   <<"scala-reflect", ".jar">> >>)
    ELSE Raise("OSError")

\* os.path.exists(PathJoin(d, name)) of a file in a library directory
LibExists(d, name) ==
    /\ listdir(d).ok
    /\ \E i \in 1..Len(listdir(d).v) : listdir(d).v[i] = name

Configs ==
    { [scala_home |-> ScalaHome, scalding_home |-> h,
       scalding_provided |-> pr, scalding_libjars |-> lj] :
        h \in {ScaldingHome, ScaldingHomeNoCore},
        pr \in {ProvidedDir, AbsentDir},
        lj \in {LibjarsDir, None} }

----------------------------------------------------------------------------
(* ScaldingJobRunner: the path helpers *)

\* [os.path.join(path, j) for j in names if j.endswith('.jar')]
JarsIn(path, names) ==
    LET sel == SelectSeq(names, LAMBDA j : j # <<>> /\ j[Len(j)] = ".jar")
    IN  [i \in 1..Len(sel) |-> PathJoin(path, sel[i])]

_get_jars(path) ==
    LET l == listdir(path)
    IN  IF l.ok THEN Ok(JarsIn(path, l.v)) ELSE l

get_scala_jars(include_compiler) ==
    IF conf.scala_home = None THEN Raise("AttributeError")
    ELSE LET lib_dir == PathJoin(conf.scala_home, <<"lib">>)
         IN  Ok(<<PathJoin(lib_dir, <<"scala-library", ".jar">>)>>
                \o (IF LibExists(lib_dir, <<"scala-reflect", ".jar">>)
                    THEN <<PathJoin(lib_dir, <<"scala-reflect", ".jar">>)>>
                    ELSE <<>>)
                \o (IF include_compiler
                    THEN <<PathJoin(lib_dir, <<"scala-compiler", ".jar">>)>>
                    ELSE <<>>))

get_scalding_jars == _get_jars(PathJoin(conf.scalding_home, <<"lib">>))

RECURSIVE FirstCore(_, _)
FirstCore(lib_dir, names) ==
    IF names = <<>> THEN None
    ELSE IF Head(names) # <<>> /\ Head(names)[1] = "scalding-core-"
        THEN PathJoin(lib_dir, Head(names))
    ELSE FirstCore(lib_dir, Tail(names))

get_scalding_core ==
    LET lib_dir == PathJoin(conf.scalding_home, <<"lib">>)
        l == listdir(lib_dir)
    IN  IF l.ok THEN Ok(FirstCore(lib_dir, l.v)) ELSE l

get_provided_jars == _get_jars(conf.scalding_provided)

get_libjars == _get_jars(conf.scalding_libjars)

\* the job name made of the whole path of the source, without os.path.basename
get_job_name_of_path(source) ==
    <<"scalding-job-">> \o User \o <<"-">> \o SplitextRoot(source)

get_job_name(source) ==
    <<"scalding-job-">> \o User \o <<"-">> \o Basename(SplitextRoot(source))

get_job_jar(job) == PathJoin(tmp_dir, get_job_name(job.source) \o <<".jar">>)

get_build_dir(source) == PathJoin(tmp_dir, get_job_name(source))

----------------------------------------------------------------------------
(* ScaldingJobRunner.get_job_class                                         *)
(*                                                                         *)
(* A source line is a sequence of tokens in which white space " " and the  *)
(* parenthesis "(" are tokens of their own, so that the pattern            *)
(*     class\s+([^\s\(]+).*extends\s+.*Job                                 *)
(* is searched in it token by token.                                       *)

NoMatch == <<"<no match>">>

Unbound == <<"<unbound>">>

\* the index of the first token after position i that is not white space
SkipSpaces(l, i) ==
    LET rest == {k \in (i + 1)..Len(l) : l[k] # " "}
    IN  IF rest = {} THEN Len(l) + 1
        ELSE CHOOSE k \in rest : \A m \in rest : k <= m

\* the last index of the run [^\s\(]+ that starts at s (s - 1 if it is empty)
RunEnd(l, s) ==
    LET stop == {k \in s..Len(l) : l[k] \in {" ", "("}}
    IN  IF stop = {} THEN Len(l)
        ELSE (CHOOSE k \in stop : \A m \in stop : k <= m) - 1

\* whether extends\s+.*Job matches somewhere after position e
ExtendsJobAfter(l, e) ==
    \E j \in (e + 1)..Len(l) :
        /\ l[j] = "extends"
        /\ j + 1 <= Len(l) /\ l[j + 1] = " "
        /\ \E k \in (j + 2)..Len(l) : l[k] = "Job"

\* the pattern with (class|object) for class
MatchAtObject(l, i) ==
    /\ l[i] \in {"class", "object"}
    /\ i + 1 <= Len(l) /\ l[i + 1] = " "
    /\ LET s == SkipSpaces(l, i)
       IN  /\ s <= Len(l)
           /\ RunEnd(l, s) >= s
           /\ ExtendsJobAfter(l, RunEnd(l, s))

\* whether the pattern matches with its "class" at position i
MatchAt(l, i) ==
    /\ l[i] = "class"
    /\ i + 1 <= Len(l) /\ l[i + 1] = " "
    /\ LET s == SkipSpaces(l, i)
       IN  /\ s <= Len(l)
           /\ RunEnd(l, s) >= s
           /\ ExtendsJobAfter(l, RunEnd(l, s))

\* re.search(pattern, l): p.groups()[0] of the leftmost match, or NoMatch
ReSearch(l) ==
    LET at == {i \in 1..Len(l) : MatchAt(l, i)}
    IN  IF at = {} THEN NoMatch
        ELSE LET i == CHOOSE k \in at : \A m \in at : k <= m
                 s == SkipSpaces(l, i)
             IN  SubSeq(l, s, RunEnd(l, s))

RECURSIVE ScanLinesNoReturn(_, _, _)
\* the loop without the return at a class of the file's name
ScanLinesNoReturn(lines, job_name, job_class) ==
    IF lines = <<>>
    THEN IF job_class = Unbound THEN Raise("UnboundLocalError") ELSE Ok(job_class)
    ELSE LET p == ReSearch(Head(lines))
         IN  ScanLinesNoReturn(Tail(lines), job_name,
                               IF p # NoMatch THEN p ELSE job_class)

RECURSIVE ScanLines(_, _, _)
\* the loop of get_job_class over the lines left, job_class as bound so far
ScanLines(lines, job_name, job_class) ==
    IF lines = <<>>
    THEN IF job_class = Unbound THEN Raise("UnboundLocalError") ELSE Ok(job_class)
    ELSE LET p == ReSearch(Head(lines))
         IN  IF p # NoMatch
             THEN IF p = job_name THEN Ok(p)
                  ELSE ScanLines(Tail(lines), job_name, p)
             ELSE ScanLines(Tail(lines), job_name, job_class)

\* get_job_class(source), the file at source holding `lines`
get_job_class(source, lines) ==
    ScanLines(lines, SplitextRoot(Basename(source)), Unbound)

(* The lines the sources are written with *)

LineWordCount ==
    <<"class", " ", "WordCount", "(", "args", ")", " ", "extends", " ",
      "Job", "(", "args", ")">>

LineFoo ==
    <<"class", " ", "Foo", "(", "args", ")", " ", "extends", " ",
      "Job", "(", "args", ")">>

LineBar == <<"class", " ", " ", "Bar", " ", "extends", " ", "Job">>

LineObject == <<"object", " ", "WordCount", " ", "extends", " ", "Job">>

LineHelper == <<"class", " ", "Helper", "(", "x", ")">>

LineImport == <<"import", " ", "com.twitter.scalding._">>

Lines == {LineWordCount, LineFoo, LineBar, LineObject, LineHelper, LineImport}

RECURSIVE SeqsUpTo(_, _)
\* the sequences over S of length at most n
SeqsUpTo(S, n) ==
    IF n = 0 THEN {<<>>}
    ELSE LET shorter == SeqsUpTo(S, n - 1)
         IN  shorter \cup {Append(q, x) : q \in shorter, x \in S}

SrcA == <<"a/", "WordCount", ".scala">>

SrcB == <<"b/", "WordCount", ".scala">>

SrcGone == <<"a/", "Gone", ".scala">>

----------------------------------------------------------------------------
(* The local disk: sources, job jars, build directories *)

TextConvention == <<LineImport, LineFoo, LineWordCount>>

TextLast == <<LineFoo, LineHelper, LineBar>>

TextNoJob == <<LineImport, LineHelper>>

Texts == {TextConvention, TextLast, TextNoJob}

SourcePaths == {SrcA, SrcB, SrcGone}

JarPaths == {get_job_jar([source |-> s]) : s \in SourcePaths}

BuildDirs == {get_build_dir(s) : s \in SourcePaths}

\* a source file; `built` records that a build of it has completed since it
\* was last saved
NoFile == [exists |-> FALSE, mtime |-> 0, text |-> <<>>, built |-> FALSE]

\* a job jar; `from` and `text` record the source the classes in it were
\* last compiled from, and what that source held when the compiler read it
NoJar ==
    [exists |-> FALSE, mtime |-> 0, partial |-> FALSE, classes |-> {},
     from |-> None, text |-> <<>>]

\* a build directory; `from` and `text` record the last compile into it
NoDir == [exists |-> FALSE, classes |-> {}, from |-> None, text |-> <<>>]

\* os.path.exists(path) of a source path
SourceExists(path) == path \in DOMAIN src /\ src[path].exists

\* the class files scalac writes for a source: one per declaration
ClassesOf(text) ==
    {text[i][SkipSpaces(text[i], 1)] : i \in
        {k \in 1..Len(text) : text[k][1] \in {"class", "object"}}}

----------------------------------------------------------------------------
(* ScaldingJobTask: what a job answers *)

UdfJar == <<"/opt/udf", ".jar">>

ExtraJarsChoices == {<<>>, <<UdfJar>>, << <<>>, UdfJar, None >>}

SourceChoices == {None, <<>>, SrcA, SrcB, SrcGone}

MainChoices == {None, <<"com.example.Main">>}

JobconfsChoices == {<<>>, << <<"mapred.reduce.tasks=", "1">>, <<"a=", "b">> >>}

Out1 == <<"/data/out1">>

Out2 == <<"/data/out2">>

\* an element of job.args(): a string, or a target with a path
S(x) == [t |-> "str", v |-> x]

T(path) == [t |-> "target", v |-> path]

RequiresChoices ==
    {<<>>, << [k |-> <<"input">>, v |-> << <<"/data/A">>, <<"/data/B">> >>] >>}

JobArgsChoices == {<<>>, <<S(<<"--side">>), T(Out2)>>}

\* a job as run_job is handed it: source() and extra_jars() are fixed, the
\* other answers hold ScaldingJobTask's defaults until run_job asks for them
NewJob(source, extra_jars) ==
    [source |-> source, extra_jars |-> extra_jars, main |-> None,
     jobconfs |-> <<>>, requires |-> <<>>, output |-> Out1,
     job_args |-> <<>>, atomic_output |-> TRUE]

RECURSIVE InputFlags(_)
\* the loop of args() over requires_hadoop().iteritems()
InputFlags(req) ==
    IF req = <<>> THEN <<>>
    ELSE <<S(<<"--">> \o Head(req).k), S(Join(",", Head(req).v))>>
         \o InputFlags(Tail(req))

\* ScaldingJobTask.args()
args(job) ==
    InputFlags(job.requires) \o <<S(<<"--output">>), T(job.output)>>
    \o job.job_args

\* the temporary location an output is written to
TmpPath(path) == path \o <<"-luigi-tmp">>

RECURSIVE fix_paths(_, _)
\* hadoop_jar.fix_paths(job) over the arguments xs: (tmp_files, job_args)
fix_paths(job, xs) ==
    IF xs = <<>> THEN [tmp_files |-> <<>>, job_args |-> <<>>]
    ELSE LET x == Head(xs)
             rest == fix_paths(job, Tail(xs))
         IN  IF x.t = "target" /\ job.atomic_output
             THEN [tmp_files |-> <<[a |-> TmpPath(x.v), b |-> x.v]>>
                                  \o rest.tmp_files,
                   job_args |-> <<TmpPath(x.v)>> \o rest.job_args]
             ELSE [tmp_files |-> rest.tmp_files,
                   job_args |-> <<x.v>> \o rest.job_args]

\* the paths among the arguments xs the cluster job writes its results to
RECURSIVE OutputPaths(_, _)
OutputPaths(job, xs) ==
    IF xs = <<>> THEN {}
    ELSE (IF Head(xs).t = "target"
          THEN {IF job.atomic_output THEN TmpPath(Head(xs).v) ELSE Head(xs).v}
          ELSE {})
         \cup OutputPaths(job, Tail(xs))

----------------------------------------------------------------------------
(* A process in run_job *)

Idle ==
    [pc |-> "idle", job |-> NewJob(None, <<>>), seen |-> "none",
     job_jar |-> None, calls |-> <<>>, err |-> "", classpath |-> None,
     libjars |-> None, arglist |-> <<>>, hadoop_classpath |-> None,
     tmp_files |-> <<>>, moves |-> <<>>, rc |-> 0]

\* run_job has raised e
Raised(st, e) == [st EXCEPT !.pc = "done", !.err = e]

----------------------------------------------------------------------------
(* ScaldingJobRunner.run_job and build_job_jar, step by step: a step ends  *)
(* where the code waits for a subprocess or for the cluster                *)

\* run_job, lines 143-147: the test of the source
run_job(p, job) ==
    /\ proc[p].pc \in {"idle", "done"}
    /\ proc' = [proc EXCEPT ![p] =
          IF job.source = None
          THEN \* os.path.abspath(None), in the arguments of logger.error
               Raised([Idle EXCEPT !.job = job], "AttributeError")
          ELSE IF ~Truthy(job.source) \/ ~SourceExists(job.source)
          THEN Raised([Idle EXCEPT !.job = job], "job source does not exist")
          ELSE [Idle EXCEPT !.pc = "build", !.job = job]]
    /\ UNCHANGED <<now, conf, src, jar, build, hdfs, dsrc, dres>>

\* the compile classpath of build_job_jar, lines 125-130; the classpath of
\* the compiler itself, scala_cp, only has to be there
CompileClasspath(job) ==
    LET a == get_scalding_jars
        b == get_provided_jars
        c == get_libjars
        scala_cp == get_scala_jars(TRUE)
    IN  IF ~a.ok THEN a
        ELSE IF ~b.ok THEN b
        ELSE IF ~c.ok THEN c
        ELSE IF ~scala_cp.ok THEN scala_cp
        ELSE Ok(Join(":", FilterNone(a.v \o b.v \o c.v \o job.extra_jars)))

\* the staleness test with the comparison turned around
CacheHitOlder(job_src, job_jar) ==
    /\ jar[job_jar].exists
    /\ jar[job_jar].mtime < src[job_src].mtime

\* the staleness test with >= for >
CacheHitNotOlder(job_src, job_jar) ==
    /\ jar[job_jar].exists
    /\ jar[job_jar].mtime >= src[job_src].mtime

\* the staleness test of build_job_jar, lines 115-118
CacheHit(job_src, job_jar) ==
    /\ jar[job_jar].exists
    /\ jar[job_jar].mtime > src[job_src].mtime

\* build_job_jar making the build directory anew for every build
build_job_jar_clean(p) ==
    LET st == proc[p]
        job_src == st.job.source
        job_jar == get_job_jar(st.job)
        build_dir == get_build_dir(job_src)
        cp == CompileClasspath(st.job)
        saw == IF ~jar[job_jar].exists THEN "absent"
               ELSE IF jar[job_jar].mtime > src[job_src].mtime THEN "fresh"
               ELSE "stale"
    IN  /\ st.pc = "build"
        /\ IF CacheHit(job_src, job_jar)
           THEN /\ proc' = [proc EXCEPT ![p] =
                      [st EXCEPT !.pc = "assemble", !.seen = saw,
                                 !.job_jar = job_jar]]
                /\ UNCHANGED build
           ELSE /\ build' = [build EXCEPT ![build_dir].exists = TRUE,
                                          ![build_dir].classes = {}]
                /\ proc' = [proc EXCEPT ![p] =
                      IF cp.ok
                      THEN [st EXCEPT !.pc = "compile", !.seen = saw,
                                      !.classpath = cp.v]
                      ELSE Raised([st EXCEPT !.seen = saw], cp.err)]
        /\ UNCHANGED <<now, conf, src, jar, hdfs, dsrc, dres>>

\* build_job_jar under a lock on the job jar: it waits while another
\* process is between its cache test and the end of its archiver
build_job_jar_locked(p) ==
    LET st == proc[p]
        job_src == st.job.source
        job_jar == get_job_jar(st.job)
        build_dir == get_build_dir(job_src)
        cp == CompileClasspath(st.job)
        saw == IF ~jar[job_jar].exists THEN "absent"
               ELSE IF jar[job_jar].mtime > src[job_src].mtime THEN "fresh"
               ELSE "stale"
    IN  /\ st.pc = "build"
        /\ \A q \in Procs \ {p} :
              proc[q].pc \notin {"compile", "archive", "archiving"}
        /\ IF CacheHit(job_src, job_jar)
           THEN /\ proc' = [proc EXCEPT ![p] =
                      [st EXCEPT !.pc = "assemble", !.seen = saw,
                                 !.job_jar = job_jar]]
                /\ UNCHANGED build
           ELSE /\ build' = [build EXCEPT ![build_dir].exists = TRUE]
                /\ proc' = [proc EXCEPT ![p] =
                      IF cp.ok
                      THEN [st EXCEPT !.pc = "compile", !.seen = saw,
                                      !.classpath = cp.v]
                      ELSE Raised([st EXCEPT !.seen = saw], cp.err)]
        /\ UNCHANGED <<now, conf, src, jar, hdfs, dsrc, dres>>

\* build_job_jar, lines 113-130: the cache test, the build directory, the
\* classpath
build_job_jar(p) ==
    LET st == proc[p]
        job_src == st.job.source
        job_jar == get_job_jar(st.job)
        build_dir == get_build_dir(job_src)
        cp == CompileClasspath(st.job)
        saw == IF ~jar[job_jar].exists THEN "absent"
               ELSE IF jar[job_jar].mtime > src[job_src].mtime THEN "fresh"
               ELSE "stale"
    IN  /\ st.pc = "build"
        /\ IF CacheHit(job_src, job_jar)
           THEN /\ proc' = [proc EXCEPT ![p] =
                      [st EXCEPT !.pc = "assemble", !.seen = saw,
                                 !.job_jar = job_jar]]
                /\ UNCHANGED build
           ELSE /\ build' = [build EXCEPT ![build_dir].exists = TRUE]
                /\ proc' = [proc EXCEPT ![p] =
                      IF cp.ok
                      THEN [st EXCEPT !.pc = "compile", !.seen = saw,
                                      !.classpath = cp.v]
                      ELSE Raised([st EXCEPT !.seen = saw], cp.err)]
        /\ UNCHANGED <<now, conf, src, jar, hdfs, dsrc, dres>>

\* the compiler started with subprocess.call: its exit status is not looked at
compile_unchecked(p, ok) ==
    LET st == proc[p]
        build_dir == get_build_dir(st.job.source)
        ran == [st EXCEPT !.calls = Append(@, "compiler"),
                          !.rc = IF ok THEN 0 ELSE 1]
    IN  /\ st.pc = "compile"
        /\ build' = IF ok
                     THEN [build EXCEPT
                             ![build_dir].classes =
                                 @ \cup ClassesOf(src[st.job.source].text),
                             ![build_dir].from = st.job.source,
                             ![build_dir].text = src[st.job.source].text]
                     ELSE build
        /\ proc' = [proc EXCEPT ![p] = [ran EXCEPT !.pc = "archive"]]
        /\ UNCHANGED <<now, conf, src, jar, hdfs, dsrc, dres>>

\* build_job_jar, lines 133-136: the compiler runs and exits
compile(p, ok) ==
    LET st == proc[p]
        build_dir == get_build_dir(st.job.source)
        ran == [st EXCEPT !.calls = Append(@, "compiler"),
                          !.rc = IF ok THEN 0 ELSE 1]
    IN  /\ st.pc = "compile"
        /\ IF ok
           THEN /\ build' = [build EXCEPT
                          ![build_dir].classes =
                              @ \cup ClassesOf(src[st.job.source].text),
                          ![build_dir].from = st.job.source,
                          ![build_dir].text = src[st.job.source].text]
                /\ proc' = [proc EXCEPT ![p] = [ran EXCEPT !.pc = "archive"]]
           ELSE /\ proc' = [proc EXCEPT ![p] = Raised(ran, "CalledProcessError")]
                /\ UNCHANGED build
        /\ UNCHANGED <<now, conf, src, jar, hdfs, dsrc, dres>>

\* build_job_jar, lines 139-140: the archiver starts; `direct` is whether it
\* writes the jar in place or to a file of its own until it is done
archive_start(p, direct) ==
    LET st == proc[p]
        job_jar == get_job_jar(st.job)
        build_dir == get_build_dir(st.job.source)
    IN  /\ st.pc = "archive"
        /\ proc' = [proc EXCEPT ![p] =
              [st EXCEPT !.pc = "archiving", !.calls = Append(@, "archiver")]]
        /\ jar' = IF direct
                  THEN [jar EXCEPT ![job_jar] =
                          [exists |-> TRUE, mtime |-> now, partial |-> TRUE,
                           classes |-> {},
                           from |-> build[build_dir].from,
                           text |-> build[build_dir].text]]
                  ELSE jar
        /\ UNCHANGED <<now, conf, src, build, hdfs, dsrc, dres>>

\* the archiver packs into the build directory's name, not into job_jar
archive_exit_elsewhere(p, ok) ==
    LET st == proc[p]
        job_jar == get_job_jar(st.job)
    IN  /\ st.pc = "archiving"
        /\ proc' = [proc EXCEPT ![p] =
              IF ok THEN [st EXCEPT !.pc = "assemble", !.job_jar = job_jar]
              ELSE Raised(st, "CalledProcessError")]
        /\ UNCHANGED <<now, conf, src, jar, build, hdfs, dsrc, dres>>

\* build_job_jar, lines 140-141: the archiver exits and the jar is returned
archive_exit(p, ok) ==
    LET st == proc[p]
        job_jar == get_job_jar(st.job)
        build_dir == get_build_dir(st.job.source)
    IN  /\ st.pc = "archiving"
        /\ IF ok
           THEN /\ jar' = [jar EXCEPT ![job_jar] =
                      [exists |-> TRUE, mtime |-> now, partial |-> FALSE,
                       classes |-> build[build_dir].classes,
                       from |-> build[build_dir].from,
                       text |-> build[build_dir].text]]
                /\ src' = [src EXCEPT ![st.job.source].built = TRUE]
                /\ proc' = [proc EXCEPT ![p] =
                      [st EXCEPT !.pc = "assemble", !.job_jar = job_jar]]
           ELSE /\ proc' = [proc EXCEPT ![p] =
                      Raised([st EXCEPT !.rc = 1], "CalledProcessError")]
                /\ UNCHANGED <<jar, src>>
        /\ UNCHANGED <<now, conf, build, hdfs, dsrc, dres>>

\* ','.join(jars), the filter forgotten
LibjarsOfUnfiltered(jars) == Join(",", jars)

\* ','.join(filter(None, jars)) of run_job, line 151
LibjarsOf(jars) == Join(",", FilterNone(jars))

\* ':'.join(filter(None, jars)) of run_job, line 166
HadoopClasspathOf(jars) == Join(":", FilterNone(jars))

\* ['-D%s' % c for c in job.jobconfs()], lines 154-155
DFlags(jobconfs) == [i \in 1..Len(jobconfs) |-> <<"-D">> \o jobconfs[i]]

\* the arglist with the class put before the -D flags
ArglistClassFirst(core, libjars, jobconfs, job_class, job_args) ==
    <<Str("hadoop"), Str("jar"), core, Str("-libjars"), libjars>>
    \o <<job_class, Str("--hdfs")>>
    \o (IF jobconfs # <<>> THEN DFlags(jobconfs) ELSE <<>>)
    \o job_args

\* the arglist of run_job, lines 152-161
Arglist(core, libjars, jobconfs, job_class, job_args) ==
    <<Str("hadoop"), Str("jar"), core, Str("-libjars"), libjars>>
    \o (IF jobconfs # <<>> THEN DFlags(jobconfs) ELSE <<>>)
    \o <<job_class, Str("--hdfs")>>
    \o job_args

\* run_job, lines 150-166: the command and the environment of the submission;
\* main, jobconfs, requires, job_args, atomic are the job's answers
assemble(p, main, jobconfs, requires, job_args, atomic) ==
    LET st == proc[p]
        job == [st.job EXCEPT !.main = main, !.jobconfs = jobconfs,
                              !.requires = requires, !.job_args = job_args,
                              !.atomic_output = atomic]
        libs == get_libjars
        core == get_scalding_core
        jars == <<st.job_jar>> \o libs.v \o job.extra_jars
        job_class == IF Truthy(job.main) THEN Ok(job.main)
                     ELSE get_job_class(job.source, src[job.source].text)
        fixed == fix_paths(job, args(job))
        asked == [st EXCEPT !.job = job]
    IN  /\ st.pc = "assemble"
        /\ proc' = [proc EXCEPT ![p] =
              IF ~libs.ok THEN Raised(asked, libs.err)
              ELSE IF ~core.ok THEN Raised(asked, core.err)
              ELSE IF ~job_class.ok THEN Raised(asked, job_class.err)
              ELSE [asked EXCEPT
                      !.pc = "submit",
                      !.libjars = LibjarsOf(jars),
                      !.arglist = Arglist(core.v, LibjarsOf(jars), job.jobconfs,
                                          job_class.v, fixed.job_args),
                      !.tmp_files = fixed.tmp_files,
                      !.hadoop_classpath =
                          HadoopClasspathOf(Append(jars, core.v))]]
        /\ UNCHANGED <<now, conf, src, jar, build, hdfs, dsrc, dres>>

\* whether a command can be started: None is no argument of a process
Startable(arglist) == \A i \in 1..Len(arglist) : arglist[i] # None

\* run_job going on to the commit whatever the submission came to
submit_swallow(p, ok, written) ==
    LET st == proc[p]
        outs == OutputPaths(st.job, args(st.job))
        ran == [st EXCEPT !.calls = Append(@, "hadoop"),
                          !.rc = IF ok THEN 0 ELSE 1]
    IN  /\ st.pc = "submit"
        /\ written \subseteq outs
        /\ IF ~Startable(st.arglist)
           THEN /\ written = {}
                /\ proc' = [proc EXCEPT ![p] = Raised(st, "TypeError")]
           ELSE /\ ok => written = outs
                /\ proc' = [proc EXCEPT ![p] =
                      [ran EXCEPT !.pc = IF st.tmp_files = <<>> THEN "done"
                                         ELSE "commit"]]
        /\ hdfs' = hdfs \cup written
        /\ UNCHANGED <<now, conf, src, jar, build, dsrc, dres>>

\* run_job, line 167: hadoop.run_and_track_hadoop_job runs the job and
\* returns, or raises, and run_job lets what it raises through; `written` are
\* the results a failed job leaves behind.  A command with None in it (no
\* scalding-core jar) raises before any process is started
submit(p, ok, written) ==
    LET st == proc[p]
        outs == OutputPaths(st.job, args(st.job))
        ran == [st EXCEPT !.calls = Append(@, "hadoop"),
                          !.rc = IF ok THEN 0 ELSE 1]
    IN  /\ st.pc = "submit"
        /\ written \subseteq outs
        /\ IF ~Startable(st.arglist)
           THEN /\ written = {}
                /\ proc' = [proc EXCEPT ![p] = Raised(st, "TypeError")]
           ELSE IF ok
           THEN /\ written = outs
                /\ proc' = [proc EXCEPT ![p] =
                      [ran EXCEPT !.pc = IF st.tmp_files = <<>> THEN "done"
                                         ELSE "commit"]]
           ELSE proc' = [proc EXCEPT ![p] = Raised(ran, "HadoopJobError")]
        /\ hdfs' = hdfs \cup written
        /\ UNCHANGED <<now, conf, src, jar, build, dsrc, dres>>

\* the loop over tmp_files copying a to b and leaving a
commit_copy(p) ==
    LET st == proc[p]
        next == st.tmp_files[Len(st.moves) + 1]
        moved == Append(st.moves, next)
    IN  /\ st.pc = "commit"
        /\ hdfs' = hdfs \cup {next.b}
        /\ proc' = [proc EXCEPT ![p] =
              [st EXCEPT !.moves = moved,
                         !.pc = IF Len(moved) = Len(st.tmp_files) THEN "done"
                                ELSE "commit"]]
        /\ UNCHANGED <<now, conf, src, jar, build, dsrc, dres>>

\* run_job, lines 169-170: one a.move(b) of the loop over tmp_files
commit(p) ==
    LET st == proc[p]
        next == st.tmp_files[Len(st.moves) + 1]
        moved == Append(st.moves, next)
    IN  /\ st.pc = "commit"
        /\ hdfs' = (hdfs \ {next.a}) \cup {next.b}
        /\ proc' = [proc EXCEPT ![p] =
              [st EXCEPT !.moves = moved,
                         !.pc = IF Len(moved) = Len(st.tmp_files) THEN "done"
                                ELSE "commit"]]
        /\ UNCHANGED <<now, conf, src, jar, build, dsrc, dres>>

----------------------------------------------------------------------------
(* The environment *)

\* After line 166 run_job reads no local file and no clock: a change of the
\* local disk while a process is there is the same change made after it has
\* returned, so it is taken then, before the next call's first read
ReadsDisk(p) == proc[p].pc \notin {"submit", "commit", "done"}

\* time passes
Tick ==
    /\ now < MaxClock
    /\ \A p \in Procs : ReadsDisk(p)
    /\ now' = now + 1
    /\ UNCHANGED <<conf, src, jar, build, hdfs, proc, dsrc, dres>>

\* somebody saves the source file at `path` with `text`
EditSource(path, text) ==
    /\ src[path].exists
    /\ \A p \in Procs : ReadsDisk(p)
    /\ src' = [src EXCEPT ![path] =
                  [exists |-> TRUE, mtime |-> now, text |-> text,
                   built |-> FALSE]]
    /\ UNCHANGED <<now, conf, jar, build, hdfs, proc, dsrc, dres>>

----------------------------------------------------------------------------
(* Specifications *)

NoSource == [name |-> SrcA, lines |-> <<>>]

NotRun == Raise("not run")

InitDisk(confs, texts) ==
    /\ now = 0
    /\ conf \in confs
    /\ \E ta \in texts :
          src = [s \in SourcePaths |->
                    IF s = SrcA
                    THEN [exists |-> TRUE, mtime |-> 0, text |-> ta,
                          built |-> FALSE]
                    ELSE IF s = SrcB
                    THEN [exists |-> TRUE, mtime |-> 0, text |-> TextLast,
                          built |-> FALSE]
                    ELSE NoFile]
    /\ jar = [j \in JarPaths |-> NoJar]
    /\ build = [d \in BuildDirs |-> NoDir]
    /\ hdfs = {}
    /\ proc = [p \in Procs |-> Idle]

\* the steps of process p, the jobs and their answers drawn from `ch`
Step(p, ch) ==
    \/ \E source \in ch.source, extra_jars \in ch.extra_jars :
          run_job(p, NewJob(source, extra_jars))
    \/ build_job_jar(p)
    \/ \E ok \in BOOLEAN : compile(p, ok)
    \/ \E direct \in BOOLEAN : archive_start(p, direct)
    \/ \E ok \in BOOLEAN : archive_exit(p, ok)
    \/ \E main \in ch.main, jobconfs \in ch.jobconfs,
          requires \in ch.requires, job_args \in ch.job_args,
          atomic \in ch.atomic_output :
          assemble(p, main, jobconfs, requires, job_args, atomic)
    \/ \E ok \in BOOLEAN, written \in SUBSET {Out1, Out2, TmpPath(Out1), TmpPath(Out2)} :
          submit(p, ok, written)
    \/ commit(p)

(* Spec: one process runs jobs one after the other on a disk that changes  *)
(* under it; the jobs answer as ScaldingJobTask does by default, but for   *)
(* source(), extra_jars() and main()                                       *)

BuildChoices ==
    [source |-> SourceChoices \ {SrcB}, extra_jars |-> {<<>>, << <<>>, UdfJar, None >>},
     main |-> {None}, jobconfs |-> {<<>>}, requires |-> {<<>>},
     job_args |-> {<<>>}, atomic_output |-> {TRUE}]

Init ==
    /\ InitDisk(Configs, {TextConvention, TextNoJob})
    /\ dsrc = NoSource
    /\ dres = NotRun

Environment ==
    \/ Tick
    \/ \E text \in {TextConvention, TextNoJob} : EditSource(SrcA, text)

Next ==
    \/ Step(1, BuildChoices)
    \/ Environment

Spec == Init /\ [][Next]_vars

(* SpecRun: one process runs jobs one after the other on a disk nobody     *)
(* else writes; the jobs' answers vary                                     *)

RunChoices ==
    [source |-> {SrcA}, extra_jars |-> ExtraJarsChoices,
     main |-> MainChoices, jobconfs |-> JobconfsChoices,
     requires |-> RequiresChoices, job_args |-> JobArgsChoices,
     atomic_output |-> BOOLEAN]

InitRun ==
    /\ InitDisk({c \in Configs : c.scalding_provided = ProvidedDir
                                 /\ c.scalding_libjars = LibjarsDir}, Texts)
    /\ dsrc = NoSource
    /\ dres = NotRun

NextRun == Step(1, RunChoices)

SpecRun == InitRun /\ [][NextRun]_vars

(* SpecCache: one process builds and runs the two jobs whose sources share  *)
(* a base name, under the full configuration, on a disk that changes       *)
(* under it                                                                *)

FullConfig ==
    [scala_home |-> ScalaHome, scalding_home |-> ScaldingHome,
     scalding_provided |-> ProvidedDir, scalding_libjars |-> LibjarsDir]

CacheChoices ==
    [source |-> {SrcA, SrcB}, extra_jars |-> {<<>>},
     main |-> {None}, jobconfs |-> {<<>>}, requires |-> {<<>>},
     job_args |-> {<<>>}, atomic_output |-> {TRUE}]

InitCache ==
    /\ InitDisk({FullConfig}, {TextConvention})
    /\ dsrc = NoSource
    /\ dres = NotRun

NextCache ==
    \/ Step(1, CacheChoices)
    \/ Environment

SpecCache == InitCache /\ [][NextCache]_vars

(* SpecRace: two processes run the same job at the same time, under the    *)
(* full configuration, while time passes                                   *)

RaceChoices ==
    [source |-> {SrcA}, extra_jars |-> {<<>>},
     main |-> {None}, jobconfs |-> {<<>>}, requires |-> {<<>>},
     job_args |-> {<<>>}, atomic_output |-> {TRUE}]

InitRace ==
    /\ InitDisk({FullConfig}, {TextConvention})
    /\ dsrc = NoSource
    /\ dres = NotRun

NextRace ==
    \/ \E p \in Procs : Step(p, RaceChoices)
    \/ Tick

SpecRace == InitRace /\ [][NextRace]_vars

(* SpecDiscover: get_job_class alone, applied to every source of at most   *)
(* MaxLines lines                                                          *)

SrcFoo == <<"a/", "Foo", ".scala">>

InitDiscover ==
    /\ InitDisk({c \in Configs : c.scalding_home = ScaldingHome
                                 /\ c.scalding_provided = ProvidedDir
                                 /\ c.scalding_libjars = LibjarsDir},
                {TextConvention})
    /\ dsrc \in {[name |-> n, lines |-> ls] :
                    n \in {SrcA, SrcFoo}, ls \in SeqsUpTo(Lines, MaxLines)}
    /\ dres = NotRun

discover ==
    /\ dres = NotRun
    /\ dres' = get_job_class(dsrc.name, dsrc.lines)
    /\ UNCHANGED <<now, conf, src, jar, build, hdfs, proc, dsrc>>

NextDiscover == discover

SpecDiscover == InitDiscover /\ [][NextDiscover]_vars

----------------------------------------------------------------------------
(* What the claims are stated with *)

\* the names the pattern captures in `lines`, in the order of the lines
Matches(lines) ==
    LET sel == SelectSeq(lines, LAMBDA l : ReSearch(l) # NoMatch)
    IN  [i \in 1..Len(sel) |-> ReSearch(sel[i])]

\* the file name of `source` without directory and extension
BaseName(source) == <<source[Len(source) - 1]>>

\* the class discovery is to give for the file `source` holding `text`:
\* the file's name if a declaration has it, else the last declaration
Discovered(source, text) ==
    LET m == Matches(text)
    IN  IF \E i \in 1..Len(m) : m[i] = BaseName(source) THEN BaseName(source)
        ELSE m[Len(m)]

\* the targets among the arguments of the job, in their order
Declared(job) ==
    LET ts == SelectSeq(args(job), LAMBDA x : x.t = "target")
    IN  [i \in 1..Len(ts) |-> ts[i].v]

RECURSIVE Split(_, _)
\* s.split(sep)
Split(s, sep) ==
    LET at == {i \in 1..Len(s) : s[i] = sep}
    IN  IF at = {} THEN <<s>>
        ELSE LET i == CHOOSE k \in at : \A m \in at : k <= m
             IN  <<SubSeq(s, 1, i - 1)>> \o Split(SubSeq(s, i + 1, Len(s)), sep)

\* the entries of a joined path list: none when the list is empty
Entries(s, sep) == IF s = <<>> THEN <<>> ELSE Split(s, sep)

NoEmptyEntry(s, sep) ==
    \A i \in 1..Len(Entries(s, sep)) :
        Entries(s, sep)[i] # <<>> /\ Entries(s, sep)[i] # None

\* how often the subprocess `name` was started in the run
Count(calls, name) == Cardinality({i \in 1..Len(calls) : calls[i] = name})

\* build_job_jar has returned in p's run
Built(p) == proc[p].job_jar # None

\* no name in the scalding library directory starts with scalding-core-
NoCoreJar ==
    LET l == listdir(PathJoin(conf.scalding_home, <<"lib">>))
    IN  /\ l.ok
        /\ \A i \in 1..Len(l.v) : l.v[i] = <<>> \/ l.v[i][1] # "scalding-core-"

\* the line declares something: it begins with class or with object
Declares(l) == l # <<>> /\ l[1] \in {"class", "object"}

\* the lines of `lines` that are not object declarations
WithoutObjects(lines) == SelectSeq(lines, LAMBDA l : ~(l # <<>> /\ l[1] = "object"))

----------------------------------------------------------------------------
(* The claims *)

\* C1: a call of build_job_jar that finds the jar with an mtime strictly
\* newer than the source's returns the jar's path at once: no compiler and
\* no archiver is started, and the jar and the build directories are as
\* they were
C1_CacheHit ==
    [][\A p \in Procs :
        LET job == proc[p].job
            job_jar == get_job_jar(job)
        IN  ( /\ proc[p].pc = "build" /\ proc'[p].pc # "build"
              /\ jar[job_jar].exists
              /\ jar[job_jar].mtime > src[job.source].mtime )
            => /\ proc'[p].pc = "assemble"
               /\ proc'[p].job_jar = job_jar
               /\ proc'[p].calls = <<>>
               /\ proc'[p].err = ""
               /\ jar' = jar
               /\ build' = build]_vars

C1_Witness ==
    \E p \in Procs :
        /\ proc[p].pc = "assemble" /\ proc[p].seen = "fresh"
        /\ proc[p].calls = <<>>
        /\ jar[proc[p].job_jar].mtime > src[proc[p].job.source].mtime

\* C2: a call of build_job_jar that finds no jar and returns has started the
\* compiler once and then the archiver once, nothing else, and returns the
\* path get_job_jar gives, where a complete jar then is
C2_CacheMiss ==
    \A p \in Procs :
        proc[p].seen = "absent" =>
            /\ proc[p].pc = "archive" => proc[p].calls = <<"compiler">>
            /\ proc[p].pc = "archiving" =>
                  proc[p].calls = <<"compiler", "archiver">>
            /\ Built(p) =>
                  /\ SubSeq(proc[p].calls, 1, 2) = <<"compiler", "archiver">>
                  /\ Count(proc[p].calls, "compiler") = 1
                  /\ Count(proc[p].calls, "archiver") = 1
                  /\ proc[p].job_jar = get_job_jar(proc[p].job)
                  /\ jar[proc[p].job_jar].exists
                  /\ ~jar[proc[p].job_jar].partial

C2_Witness ==
    \E p \in Procs :
        /\ proc[p].seen = "absent" /\ proc[p].pc = "assemble"
        /\ proc[p].calls = <<"compiler", "archiver">>
        /\ jar[proc[p].job_jar].exists

\* C3: a call of build_job_jar that finds the jar with an mtime older than
\* or equal to the source's does not return it: it takes the path of a
\* missing jar, so that when it returns the compiler and then the archiver
\* have each run once and the jar has just been written anew
C3_StaleRebuild ==
    [][\A p \in Procs :
        LET job == proc[p].job
            job_jar == get_job_jar(job)
        IN  /\ ( /\ proc[p].pc = "build" /\ proc'[p].pc # "build"
                 /\ jar[job_jar].exists
                 /\ jar[job_jar].mtime <= src[job.source].mtime )
               => /\ proc'[p].seen = "stale"
                  /\ proc'[p].pc \in {"compile", "done"}
                  /\ proc'[p].job_jar = None
                  /\ proc'[p].calls = <<>>
            /\ ( proc[p].seen = "stale" /\ proc[p].pc = "compile"
                 /\ proc'[p].pc # "compile" )
               => proc'[p].calls = <<"compiler">>
            /\ ( proc[p].seen = "stale" /\ ~Built(p) /\ proc'[p].job_jar # None )
               => /\ proc'[p].calls = <<"compiler", "archiver">>
                  /\ proc'[p].job_jar = job_jar
                  /\ jar'[job_jar].exists /\ ~jar'[job_jar].partial
                  /\ jar'[job_jar].mtime = now
                  /\ jar'[job_jar].classes =
                        build[get_build_dir(job.source)].classes]_vars

C3_Witness ==
    \E p \in Procs :
        /\ proc[p].seen = "stale" /\ proc[p].pc = "assemble"
        /\ proc[p].calls = <<"compiler", "archiver">>

\* C4: when atomic_output is true and the submission succeeds, run_job returns
\* with every recorded pair moved, in the recorded order, and every declared
\* output at its final and not at its temporary location; no move is made
\* before the submission has returned successfully
C4_CommitOnSuccess ==
    \A p \in Procs :
        LET st == proc[p]
            outs == Declared(st.job)
        IN  /\ Len(st.moves) <= Len(st.tmp_files)
            /\ st.moves = SubSeq(st.tmp_files, 1, Len(st.moves))
            /\ st.moves # <<>> =>
                  /\ st.calls[Len(st.calls)] = "hadoop"
                  /\ st.rc = 0 /\ st.err = ""
            /\ ( st.pc = "done" /\ st.err = "" /\ st.job.atomic_output ) =>
                  /\ Count(st.calls, "hadoop") = 1
                  /\ st.moves = st.tmp_files
                  /\ st.moves = [i \in 1..Len(outs) |->
                                    [a |-> TmpPath(outs[i]), b |-> outs[i]]]
                  /\ \A i \in 1..Len(outs) :
                        outs[i] \in hdfs /\ TmpPath(outs[i]) \notin hdfs

C4_Witness ==
    \E p \in Procs :
        /\ proc[p].pc = "done" /\ proc[p].err = "" /\ proc[p].job.atomic_output
        /\ Len(proc[p].moves) = 2
        /\ {Out1, Out2} \subseteq hdfs

\* C5: when the submission fails, run_job ends there with the error of the
\* submission: it has moved nothing, has submitted once, every path that
\* existed or that the job wrote is still there, and the final location of
\* each recorded pair is as it was before the submission
C5_NoCommitOnFailure ==
    [][\A p \in Procs :
        ( proc[p].pc = "submit" /\ proc'[p].pc # "submit" /\ proc'[p].rc # 0 )
        => /\ proc'[p].pc = "done"
           /\ proc'[p].err = "HadoopJobError"
           /\ proc'[p].moves = <<>>
           /\ Count(proc'[p].calls, "hadoop") = 1
           /\ hdfs \subseteq hdfs'
           /\ \A i \in 1..Len(proc[p].tmp_files) :
                 proc[p].tmp_files[i].b \in hdfs'
                    <=> proc[p].tmp_files[i].b \in hdfs]_vars

C5_Witness ==
    \E p \in Procs :
        /\ proc[p].pc = "done" /\ proc[p].err = "HadoopJobError"
        /\ proc[p].tmp_files # <<>> /\ proc[p].moves = <<>>
        /\ proc[p].tmp_files[1].a \in hdfs
        /\ proc[p].tmp_files[1].b \notin hdfs

\* C6: a run_job whose job has no source, or a source that is no file, ends
\* with the error "job source does not exist", no subprocess started and no
\* output moved
C6_SourcePrecondition ==
    \A p \in Procs :
        ( proc[p].pc = "done"
          /\ (proc[p].job.source = None \/ ~SourceExists(proc[p].job.source)) )
        => /\ proc[p].err = "job source does not exist"
           /\ proc[p].calls = <<>>
           /\ proc[p].moves = <<>>

\* C7: applied to a source with at least one line the pattern matches,
\* get_job_class returns the file's base name if a matched declaration has
\* that name, whatever comes before or after it, and otherwise the name of
\* the last matched declaration
C7_JobClass ==
    ( dres # NotRun /\ Matches(dsrc.lines) # <<>> )
    => dres = Ok(Discovered(dsrc.name, dsrc.lines))

C7_Witness ==
    LET m == Matches(dsrc.lines)
    IN  /\ dres = Ok(BaseName(dsrc.name))
        /\ Len(m) = 3
        /\ m[1] # BaseName(dsrc.name)
        /\ m[2] = BaseName(dsrc.name)
        /\ m[3] # BaseName(dsrc.name)

\* C8: a run_job that comes to resolve the class of a job with no main() and
\* a source without any matching declaration ends with an explicit "no
\* matching declaration" error, and has submitted nothing
C8_DiscoveryFailure ==
    \A p \in Procs :
        ( /\ proc[p].pc = "done" /\ Built(p)
          /\ get_libjars.ok /\ get_scalding_core.ok
          /\ proc[p].job.main = None
          /\ Matches(src[proc[p].job.source].text) = <<>> )
        => /\ proc[p].err = "no matching declaration"
           /\ Count(proc[p].calls, "hadoop") = 0

C11_MissingCore ==
    \A p \in Procs :
        NoCoreJar =>
            /\ proc[p].arglist = <<>>
            /\ proc[p].pc # "submit"

\* C12: when the provided directory or the libjars directory is absent or
\* not configured, and the scala and scalding roots are there, a call that
\* has to build takes the category as empty and goes on: it does not end
\* with the error of listing the directory, and it starts the compiler
C12_OptionalRoots ==
    \A p \in Procs :
        ( /\ ~get_provided_jars.ok \/ ~get_libjars.ok
          /\ get_scalding_jars.ok /\ get_scala_jars(TRUE).ok
          /\ proc[p].seen \in {"absent", "stale"} )
        => /\ proc[p].err \notin {"OSError", "TypeError"}
           /\ proc[p].pc = "done" => proc[p].calls # <<>>

\* C13: when the compiler exits non-zero the archiver is not started, and
\* when the compiler or the archiver exits non-zero build_job_jar returns no
\* path: run_job ends there with the error of the subprocess as it is, each
\* subprocess started at most once, nothing submitted and nothing moved
C13_BuildFailure ==
    [][\A p \in Procs :
        /\ ( proc[p].pc = "compile" /\ proc'[p].pc # "compile"
              /\ proc'[p].rc # 0 )
           => /\ proc'[p].pc = "done"
              /\ proc'[p].err = "CalledProcessError"
              /\ proc'[p].calls = <<"compiler">>
              /\ proc'[p].job_jar = None
              /\ proc'[p].arglist = <<>> /\ proc'[p].moves = <<>>
              /\ hdfs' = hdfs /\ jar' = jar
        /\ ( proc[p].pc = "archiving" /\ proc'[p].pc # "archiving"
              /\ proc'[p].rc # 0 )
           => /\ proc'[p].pc = "done"
              /\ proc'[p].err = "CalledProcessError"
              /\ proc'[p].calls = <<"compiler", "archiver">>
              /\ proc'[p].job_jar = None
              /\ proc'[p].arglist = <<>> /\ proc'[p].moves = <<>>
              /\ hdfs' = hdfs]_vars

C13_Witness ==
    \E p \in Procs :
        /\ proc[p].pc = "done" /\ proc[p].err = "CalledProcessError"
        /\ proc[p].rc # 0
        /\ proc[p].calls = <<"compiler", "archiver">>
        /\ proc[p].job_jar = None

\* C14 as claimed: for the source WordCount.scala whose only declaration is
\* "object WordCount extends Job", get_job_class gives WordCount
C14_ObjectDiscovered ==
    ( /\ dres # NotRun
      /\ dsrc.name = SrcA
      /\ \E i \in 1..Len(dsrc.lines) : dsrc.lines[i] = LineObject
      /\ \A i \in 1..Len(dsrc.lines) :
            Declares(dsrc.lines[i]) => dsrc.lines[i] = LineObject )
    => dres = Ok(<<"WordCount">>)

\* C14, amended: get_job_class recognises class declarations only.  An object
\* declaration counts as no declaration: the result is the one of the source
\* with its object lines taken out, a source whose declarations extending
\* Job are all objects resolves to no class, and WordCount.scala holding
\* "class WordCount(args) extends Job(args)" resolves to WordCount
C14_ClassOnly ==
    dres # NotRun =>
        /\ dres = get_job_class(dsrc.name, WithoutObjects(dsrc.lines))
        /\ ( \A i \in 1..Len(dsrc.lines) :
                MatchAtObject(dsrc.lines[i], 1) => dsrc.lines[i][1] = "object" )
           => ~dres.ok
        /\ ( dsrc.name = SrcA
              /\ \E i \in 1..Len(dsrc.lines) : dsrc.lines[i] = LineWordCount )
           => dres = Ok(<<"WordCount">>)

C14_Witness ==
    /\ dsrc.name = SrcA
    /\ dsrc.lines = <<LineObject, LineFoo>>
    /\ dres = Ok(<<"Foo">>)

\* C15: a jar that an archiver left partly written when it exited non-zero
\* is never returned by the cache test: a call of build_job_jar that finds it
\* builds anew
C15_NoPartialArtifact ==
    [][\A p \in Procs :
        ( /\ proc[p].pc = "build" /\ proc'[p].pc # "build"
          /\ jar[get_job_jar(proc[p].job)].partial )
        => /\ proc'[p].pc = "compile"
           /\ proc'[p].job_jar = None]_vars

\* C16: nothing in the build makes a process wait for another one that
\* builds the same job: wherever the other process is, a process at the
\* cache test can take it, one whose compiler has exited can start its
\* archiver, and one whose archiver runs can have it write the jar
C16_Unlocked ==
    \A p \in Procs :
        /\ proc[p].pc = "build" => ENABLED build_job_jar(p)
        /\ proc[p].pc = "archive" => ENABLED archive_start(p, TRUE)
        /\ proc[p].pc = "archiving" => ENABLED archive_exit(p, TRUE)

\* one process has returned from the cache test a jar that no archiver has
\* finished yet, and the archiver of the other is writing it
C16_Witness ==
    \E p, q \in Procs :
        /\ p # q
        /\ proc[p].job.source = proc[q].job.source
        /\ proc[q].pc = "archiving"
        /\ jar[get_job_jar(proc[q].job)].partial
        /\ ~src[proc[q].job.source].built
        /\ proc[p].seen = "fresh" /\ proc[p].calls = <<>>
        /\ proc[p].job_jar = get_job_jar(proc[q].job)

\* C17: the build directory is made when it is absent and never emptied:
\* no step takes a class file out of it, a build that finds it uses it as it
\* is, the compiler adds to it, and the archiver packs all that is in it, so
\* a jar holds the classes of every compile made into that directory
C17_ScratchKept ==
    [][/\ \A d \in BuildDirs :
            /\ build[d].exists => build'[d].exists
            /\ build[d].classes \subseteq build'[d].classes
       /\ \A p \in Procs :
            LET job == proc[p].job
                d == get_build_dir(job.source)
            IN  /\ ( proc[p].pc = "build" /\ proc'[p].pc = "compile" )
                   => /\ build'[d].exists
                      /\ build'[d].classes = build[d].classes
                /\ ( proc[p].pc = "compile" /\ proc'[p].pc = "archive" )
                   => build'[d].classes =
                         build[d].classes \cup ClassesOf(src[job.source].text)
                /\ ( proc[p].pc = "archiving" /\ proc'[p].pc = "assemble" )
                   => jar'[get_job_jar(job)].classes = build[d].classes]_vars

\* a jar just built from a source that declares Helper alone, holding Foo
\* and WordCount of an earlier build as well
C17_Witness ==
    \E p \in Procs :
        /\ proc[p].pc = "assemble" /\ proc[p].seen = "stale"
        /\ proc[p].calls = <<"compiler", "archiver">>
        /\ proc[p].job.source = SrcA
        /\ jar[proc[p].job_jar].text = TextNoJob
        /\ ClassesOf(TextNoJob) = {"Helper"}
        /\ jar[proc[p].job_jar].classes = {"Foo", "WordCount", "Helper"}

\* C18 as claimed: once a build of a job has run its compiler and archiver
\* successfully, every further call of build_job_jar for that job, the
\* source not saved in between, returns the jar's path with no subprocess
\* started, also when jar and source bear the same mtime
C18_Idempotent ==
    [][\A p \in Procs :
        LET job == proc[p].job
            job_jar == get_job_jar(job)
        IN  ( /\ proc[p].pc = "build" /\ proc'[p].pc # "build"
              /\ src[job.source].built )
            => /\ proc'[p].pc = "assemble"
               /\ proc'[p].job_jar = job_jar
               /\ proc'[p].calls = <<>>
               /\ jar' = jar]_vars

\* C18, amended: such a further call finds the jar there and not older than
\* the source; it returns the jar's path with no subprocess started when the
\* jar's mtime is strictly newer than the source's, and it builds anew when
\* the jar was written in the clock tick of the source's last modification
C18_IdempotentIfNewer ==
    [][\A p \in Procs :
        LET job == proc[p].job
            job_jar == get_job_jar(job)
        IN  ( /\ proc[p].pc = "build" /\ proc'[p].pc # "build"
              /\ src[job.source].built )
            => /\ jar[job_jar].exists
               /\ jar[job_jar].mtime >= src[job.source].mtime
               /\ jar[job_jar].mtime # src[job.source].mtime
                  => /\ proc'[p].pc = "assemble"
                     /\ proc'[p].job_jar = job_jar
                     /\ proc'[p].calls = <<>>
                     /\ jar' = jar /\ build' = build
               /\ jar[job_jar].mtime = src[job.source].mtime
                  => /\ proc'[p].pc = "compile"
                     /\ proc'[p].job_jar = None]_vars

C18_Witness ==
    \E p \in Procs :
        /\ proc[p].pc = "assemble" /\ proc[p].seen = "fresh"
        /\ proc[p].calls = <<>>
        /\ src[proc[p].job.source].built
        /\ jar[proc[p].job_jar].from = proc[p].job.source
        /\ ~jar[proc[p].job_jar].partial

\* C19: a jar that build_job_jar returns from the cache test was made by a
\* compile that read what the source holds now; stated for the complete
\* jars compiled from the job's own source, which covers the source being
\* saved between the compiler's reading it and the archiver's writing the jar
C19_Freshness ==
    [][\A p \in Procs :
        LET job == proc[p].job
            job_jar == get_job_jar(job)
        IN  ( /\ proc[p].pc = "build" /\ proc'[p].pc = "assemble"
              /\ jar[job_jar].from = job.source
              /\ ~jar[job_jar].partial )
            => jar[job_jar].text = src[job.source].text]_vars

\* C20: the jar path and the build directory of a job depend on the user
\* and the base name of its source only: sources of one base name in
\* different directories have one jar and one build directory, and a call
\* of build_job_jar that finds there a jar compiled from the other source,
\* newer than its own source, returns that jar from the cache test
C20_CacheKey ==
    [][/\ \A s1, s2 \in SourcePaths :
            BaseName(s1) = BaseName(s2)
            => /\ get_job_jar([source |-> s1]) = get_job_jar([source |-> s2])
               /\ get_build_dir(s1) = get_build_dir(s2)
       /\ \A p \in Procs :
            LET job == proc[p].job
                job_jar == get_job_jar(job)
            IN  ( /\ proc[p].pc = "build" /\ proc'[p].pc # "build"
                  /\ jar[job_jar].exists
                  /\ jar[job_jar].from \notin {None, job.source}
                  /\ jar[job_jar].mtime > src[job.source].mtime )
                => /\ proc'[p].pc = "assemble"
                   /\ proc'[p].job_jar = job_jar
                   /\ proc'[p].calls = <<>>
                   /\ jar' = jar]_vars

C20_Witness ==
    \E p \in Procs :
        /\ proc[p].pc = "assemble" /\ proc[p].seen = "fresh"
        /\ proc[p].calls = <<>>
        /\ proc[p].job.source = SrcB
        /\ jar[proc[p].job_jar].from = SrcA
        /\ jar[proc[p].job_jar].text # src[SrcB].text

====
